---- MODULE Spec2Model ----
(***************************************************************************)
(* Model of src/handler.py: lambda_handler, one invocation from the first  *)
(* statement of the try block to the end of the finally block.             *)
(*                                                                         *)
(* The embedded engine (duckdb) is an external collaborator: each call     *)
(* into it either returns or raises an Exception carrying a message.       *)
(* conn.close() and logger calls are taken not to raise.                   *)
(***************************************************************************)
EXTENDS Integers, Sequences, FiniteSets, TLC

\* ---------------------------------------------------------------- bounds
MaxCols == 2
MaxRows == 2

\* ------------------------------------------------------- python values
\* event.get(param) of an absent key
PyNone == "<None>"

\* values the request fields are drawn from: empty (falsy) or non-empty
QueryValues == {"", "SELECT ..."}
ArnValues == {"", "arn:aws:s3tables:..."}

FieldValues(param) == IF param = "query" THEN QueryValues ELSE ArnValues

\* line 39
required_params == <<"query", "catalog_arn">>

\* the invocation payloads: the default event=None, or a mapping holding
\* any subset of the two recognised fields
Events ==
    {[kind |-> "None", items |-> [k \in {} |-> ""]]} \cup
    {[kind |-> "dict", items |-> f] :
        f \in UNION {[D -> {"", "SELECT ...", "arn:aws:s3tables:..."}] :
                        D \in SUBSET {"query", "catalog_arn"}}}

ValidEvents ==
    {e \in Events : \A k \in DOMAIN e.items : e.items[k] \in FieldValues(k)}

\* dict.get
Get(ev, param) == IF param \in DOMAIN ev.items THEN ev.items[param] ELSE PyNone

\* python truthiness of a str-or-None
Truthy(v) == v /= PyNone /\ v /= ""

\* faulty variant of AllRequired: only the first required parameter is looked at
AllRequiredFirstOnly(ev) == Truthy(Get(ev, required_params[1]))

\* all(event.get(param) for param in required_params), line 40
AllRequired(ev) == \A i \in 1..Len(required_params) : Truthy(Get(ev, required_params[i]))

\* messages carried by the exceptions the engine raises
Messages == {"IO Error: ...", "Catalog Error: ..."}

\* exceptions
EngineErrors == {[type |-> "duckdb.Error", msg |-> m] : m \in Messages}
AttributeError == [type |-> "AttributeError", msg |-> "'NoneType' object has no attribute 'get'"]
KeyError == [type |-> "KeyError", msg |-> "'catalog_arn'"]
KeyTypeError == [type |-> "TypeError", msg |-> "keys must be str, int, float, bool or None, not datetime.date"]
NoExc == [type |-> "none", msg |-> ""]

\* str(e)
Str(e) == e.msg

\* values a result cell can hold, as fetchall returns them
IntOne == [py |-> "int", repr |-> "1"]
StrX == [py |-> "str", repr |-> "x"]
MapDateKey == [py |-> "dict[date]", repr |-> "{datetime.date(2024, 1, 1): 1}"]
CellValues == {IntOne, StrX, MapDateKey}

ColumnNames == {"a", "b"}

\* json.dumps(value, default=str) of one cell: numbers and strings are
\* native, other objects go through default=str, and a dict whose keys are
\* not str/int/float/bool/None raises TypeError (default is not applied to keys)
JsonEncodable(v) == v.py /= "dict[date]"

JsonValue(v) ==
    IF v.py = "int" THEN [json |-> "number", text |-> v.repr]
    ELSE [json |-> "string", text |-> v.repr]

\* ---------------------------------------------------------------- setup
\* line 17
extensions == <<"aws", "httpfs", "iceberg", "parquet">>

\* the statements of lines 18-35 in program order
SetupStatements ==
    [i \in 1..(2 * Len(extensions)) |->
        IF i % 2 = 1 THEN <<"INSTALL", extensions[(i + 1) \div 2]>>
                     ELSE <<"LOAD", extensions[i \div 2]>>]
    \o << <<"FORCE INSTALL", "iceberg">>,
          <<"LOAD", "iceberg">>,
          <<"CALL", "load_aws_credentials">>,
          <<"CREATE SECRET", "s3">> >>

\* ------------------------------------------------------------ responses
NoResponse == [statusCode |-> 0, body |-> [kind |-> "none"]]

\* lines 41-44
ValidationResponse ==
    [statusCode |-> 400,
     body |-> [kind |-> "string",
               text |-> "Missing required parameters: ['query', 'catalog_arn']"]]

\* faulty variant of CatalogErrorResponse: the details carry the exception's type,
\* not its message
CatalogErrorResponseTypeName(e) ==
    [statusCode |-> 500,
     body |-> [kind |-> "object",
               value |-> [error |-> "Catalog connection failed",
                          details |-> e.type]]]

\* lines 61-67
CatalogErrorResponse(e) ==
    [statusCode |-> 500,
     body |-> [kind |-> "object",
               value |-> [error |-> "Catalog connection failed",
                          details |-> Str(e)]]]

\* faulty variant of Suggestions: the first two entries change places
SuggestionsSwapped ==
    <<"Check your S3 Tables ARN format",
      "Verify table exists in the attached database",
      "Validate AWS permissions for the bucket">>

\* lines 94-98
Suggestions ==
    <<"Verify table exists in the attached database",
      "Check your S3 Tables ARN format",
      "Validate AWS permissions for the bucket">>

\* lines 89-100
QueryErrorResponse(e) ==
    [statusCode |-> 400,
     body |-> [kind |-> "object",
               value |-> [error |-> "Query execution error",
                          details |-> Str(e),
                          suggestions |-> Suggestions]]]

\* faulty variant of GlobalErrorResponse: the exception text is returned
GlobalErrorResponseLeak(e) ==
    [statusCode |-> 500,
     body |-> [kind |-> "object",
               value |-> [error |-> "Unexpected runtime error",
                          details |-> Str(e)]]]

\* lines 104-107; e is logged, not returned
GlobalErrorResponse(e) ==
    [statusCode |-> 500,
     body |-> [kind |-> "object",
               value |-> [error |-> "Unexpected runtime error"]]]

\* ------------------------------------------------------ result shaping
Min(a, b) == IF a < b THEN a ELSE b

\* dict(zip(columns, row)): later pairs overwrite earlier ones
DictZip(cols, row) ==
    LET n == Min(Len(cols), Len(row)) IN
    [name \in {cols[i] : i \in 1..n} |->
        row[CHOOSE i \in 1..n : cols[i] = name /\ \A j \in (i + 1)..n : cols[j] /= name]]

\* line 74
Formatted(cols, rows) == [i \in 1..Len(rows) |-> DictZip(cols, rows[i])]

\* json.dumps raises unless every cell kept in formatted is encodable
DumpsOk(fmt) == \A i \in 1..Len(fmt) : \A name \in DOMAIN fmt[i] : JsonEncodable(fmt[i][name])

\* lines 76-85
SuccessResponse(cols, fmt) ==
    [statusCode |-> 200,
     body |-> [kind |-> "object",
               value |-> [data |-> [i \in 1..Len(fmt) |->
                                       [name \in DOMAIN fmt[i] |-> JsonValue(fmt[i][name])]],
                          metadata |-> [row_count |-> Len(fmt),
                                        column_names |-> cols]]]]

\* the result sets the engine can hand back: at least one column, every row
\* as wide as the column list
ColumnLists == UNION {[1..n -> ColumnNames] : n \in 1..MaxCols}
RowLists(n) == UNION {[1..m -> [1..n -> CellValues]] : m \in 0..MaxRows}

\* ---------------------------------------------------------------- state
VARIABLES
    event,      \* the invocation payload
    pc,         \* position in lambda_handler
    setupIdx,   \* index of the next setup statement
    connBound,  \* 'conn' in locals()
    connOpen,   \* the session is open
    closeCount, \* number of conn.close() calls
    trace,      \* engine calls issued so far, in order
    failed,     \* the step that raised, "none" if none did
    failIdx,    \* Len(trace) when a step raised, 0 if none did
    exc,        \* the exception that was raised, NoExc if none was
    validated,  \* the required-parameter check has been evaluated
    columns,    \* line 72
    result,     \* line 71
    response    \* the value lambda_handler returns

vars == <<event, pc, setupIdx, connBound, connOpen, closeCount, trace,
          failed, failIdx, exc, validated, columns, result, response>>

Init ==
    /\ event \in ValidEvents
    /\ pc = "connect"
    /\ setupIdx = 1
    /\ connBound = FALSE
    /\ connOpen = FALSE
    /\ closeCount = 0
    /\ trace = <<>>
    /\ failed = "none"
    /\ failIdx = 0
    /\ exc = NoExc
    /\ validated = FALSE
    /\ columns = <<>>
    /\ result = <<>>
    /\ response = NoResponse

\* the outer except of lines 102-107, entered from step `step`
GlobalExcept(step, e, tr) ==
    /\ failed' = step
    /\ failIdx' = Len(tr)
    /\ exc' = e
    /\ response' = GlobalErrorResponse(e)
    /\ pc' = "finally"

\* line 14
Connect ==
    /\ pc = "connect"
    /\ trace' = Append(trace, <<"connect", ":memory:">>)
    /\ \/ /\ connBound' = TRUE
          /\ connOpen' = TRUE
          /\ pc' = "setup"
          /\ UNCHANGED <<failed, failIdx, exc, response>>
       \/ /\ \E e \in EngineErrors : GlobalExcept("connect", e, trace')
          /\ UNCHANGED <<connBound, connOpen>>
    /\ UNCHANGED <<event, setupIdx, closeCount, validated, columns, result>>

\* faulty variant of SetupExecute: a failing setup statement is skipped over
SetupExecuteSwallow ==
    /\ pc = "setup"
    /\ trace' = Append(trace, SetupStatements[setupIdx])
    /\ setupIdx' = setupIdx + 1
    /\ pc' = IF setupIdx = Len(SetupStatements) THEN "validate" ELSE "setup"
    /\ \/ UNCHANGED <<failed, failIdx, exc>>
       \/ \E e \in EngineErrors :
            /\ failed' = "setup"
            /\ failIdx' = Len(trace')
            /\ exc' = e
    /\ UNCHANGED <<event, connBound, connOpen, closeCount, validated, columns, result, response>>

\* lines 18-35, one conn.execute per step
SetupExecute ==
    /\ pc = "setup"
    /\ trace' = Append(trace, SetupStatements[setupIdx])
    /\ \/ /\ setupIdx' = setupIdx + 1
          /\ pc' = IF setupIdx = Len(SetupStatements) THEN "validate" ELSE "setup"
          /\ UNCHANGED <<failed, failIdx, exc, response>>
       \/ /\ \E e \in EngineErrors : GlobalExcept("setup", e, trace')
          /\ UNCHANGED setupIdx
    /\ UNCHANGED <<event, connBound, connOpen, closeCount, validated, columns, result>>

\* lines 39-47
Validate ==
    /\ pc = "validate"
    /\ IF event.kind = "None"
         THEN /\ GlobalExcept("event", AttributeError, trace)
              /\ UNCHANGED validated
         ELSE /\ validated' = TRUE
              /\ IF ~AllRequired(event)
                   THEN /\ response' = ValidationResponse
                        /\ pc' = "finally"
                        /\ UNCHANGED <<failed, failIdx, exc>>
                   ELSE IF ~({"catalog_arn", "query"} \subseteq DOMAIN event.items)
                          THEN GlobalExcept("event", KeyError, trace)
                          ELSE /\ pc' = "attach"
                               /\ UNCHANGED <<failed, failIdx, exc, response>>
    /\ UNCHANGED <<event, setupIdx, connBound, connOpen, closeCount, trace, columns, result>>

\* faulty variant of Attach: a failed ATTACH is tried a second time
AttachRetry ==
    /\ pc = "attach"
    /\ \/ /\ trace' = Append(trace, <<"ATTACH", event.items["catalog_arn"]>>)
          /\ pc' = "execute"
          /\ UNCHANGED <<failed, failIdx, exc, response>>
       \/ \E e \in EngineErrors :
            /\ trace' = trace \o << <<"ATTACH", event.items["catalog_arn"]>>,
                                    <<"ATTACH", event.items["catalog_arn"]>> >>
            /\ failed' = "attach"
            /\ failIdx' = Len(trace) + 1
            /\ exc' = e
            /\ response' = CatalogErrorResponse(e)
            /\ pc' = "finally"
    /\ UNCHANGED <<event, setupIdx, connBound, connOpen, closeCount, validated, columns, result>>

\* lines 50-67
Attach ==
    /\ pc = "attach"
    /\ trace' = Append(trace, <<"ATTACH", event.items["catalog_arn"]>>)
    /\ \/ /\ pc' = "execute"
          /\ UNCHANGED <<failed, failIdx, exc, response>>
       \/ \E e \in EngineErrors :
            /\ failed' = "attach"
            /\ failIdx' = Len(trace')
            /\ exc' = e
            /\ response' = CatalogErrorResponse(e)
            /\ pc' = "finally"
    /\ UNCHANGED <<event, setupIdx, connBound, connOpen, closeCount, validated, columns, result>>

\* the except of lines 87-100, entered from step `step`
QueryExcept(step, e, tr) ==
    /\ failed' = step
    /\ failIdx' = Len(tr)
    /\ exc' = e
    /\ response' = QueryErrorResponse(e)
    /\ pc' = "finally"

\* line 71, conn.execute(query)
Execute ==
    /\ pc = "execute"
    /\ trace' = Append(trace, <<"QUERY", event.items["query"]>>)
    /\ \/ /\ pc' = "fetchall"
          /\ UNCHANGED <<failed, failIdx, exc, response>>
       \/ \E e \in EngineErrors : QueryExcept("query", e, trace')
    /\ UNCHANGED <<event, setupIdx, connBound, connOpen, closeCount, validated, columns, result>>

\* line 71 .fetchall() and line 72 conn.description
Fetchall ==
    /\ pc = "fetchall"
    /\ trace' = Append(trace, <<"fetchall", event.items["query"]>>)
    /\ \/ /\ \E cols \in ColumnLists : \E rows \in RowLists(Len(cols)) :
                /\ columns' = cols
                /\ result' = rows
          /\ pc' = "format"
          /\ UNCHANGED <<failed, failIdx, exc, response>>
       \/ /\ \E e \in EngineErrors : QueryExcept("query", e, trace')
          /\ UNCHANGED <<columns, result>>
    /\ UNCHANGED <<event, setupIdx, connBound, connOpen, closeCount, validated>>

\* lines 74-85: build formatted and the response; a TypeError of json.dumps
\* is raised inside the try of line 70 and lands in the except of line 87
Format ==
    /\ pc = "format"
    /\ LET formatted == Formatted(columns, result) IN
         IF DumpsOk(formatted)
           THEN /\ response' = SuccessResponse(columns, formatted)
                /\ pc' = "finally"
                /\ UNCHANGED <<failed, failIdx, exc>>
           ELSE QueryExcept("dumps", KeyTypeError, trace)
    /\ UNCHANGED <<event, setupIdx, connBound, connOpen, closeCount, trace, validated, columns, result>>

\* faulty variant of Finally: the session is closed on the success path only
FinallyCloseOnSuccess ==
    /\ pc = "finally"
    /\ IF connBound /\ response.statusCode = 200
         THEN /\ connOpen' = FALSE
              /\ closeCount' = closeCount + 1
              /\ trace' = Append(trace, <<"close", "">>)
         ELSE UNCHANGED <<connOpen, closeCount, trace>>
    /\ pc' = "done"
    /\ UNCHANGED <<event, setupIdx, connBound, failed, failIdx, exc, validated, columns, result, response>>

\* lines 108-110
Finally ==
    /\ pc = "finally"
    /\ IF connBound
         THEN /\ connOpen' = FALSE
              /\ closeCount' = closeCount + 1
              /\ trace' = Append(trace, <<"close", "">>)
         ELSE UNCHANGED <<connOpen, closeCount, trace>>
    /\ pc' = "done"
    /\ UNCHANGED <<event, setupIdx, connBound, failed, failIdx, exc, validated, columns, result, response>>

Next ==
    \/ Connect
    \/ SetupExecute
    \/ Validate
    \/ Attach
    \/ Execute
    \/ Fetchall
    \/ Format
    \/ Finally

Spec == Init /\ [][Next]_vars

\* ------------------------------------------------------------ properties
\* number of engine calls of kind `op` issued so far
Count(op) == Cardinality({k \in 1..Len(trace) : trace[k][1] = op})

Done == pc = "done"

IsObject(r) == r.body.kind = "object"

\* the four error shapes and the success shape, read off a response
ValidationShape(r) == r.statusCode = 400 /\ r.body.kind = "string"
CatalogShape(r) ==
    r.statusCode = 500 /\ IsObject(r) /\ DOMAIN r.body.value = {"error", "details"}
QueryShape(r) ==
    r.statusCode = 400 /\ IsObject(r)
        /\ DOMAIN r.body.value = {"error", "details", "suggestions"}
GenericShape(r) ==
    r.statusCode = 500 /\ IsObject(r) /\ DOMAIN r.body.value = {"error"}
SuccessShape(r) ==
    r.statusCode = 200 /\ IsObject(r) /\ DOMAIN r.body.value = {"data", "metadata"}

\* the request holds no non-empty value for one of the two required fields
Lacks(ev, field) == field \notin DOMAIN ev.items \/ ev.items[field] = ""
RequestIncomplete == Lacks(event, "query") \/ Lacks(event, "catalog_arn")

\* the query ran and its rows were fetched
QuerySucceeded == Count("fetchall") = 1 /\ failed /= "query"

\* C1 as stated: when the invocation has ended the session has been closed
\* exactly once, on every exit path, and it is never closed more than once.
C1_ClosedExactlyOnce ==
    /\ closeCount <= 1
    /\ Done => closeCount = 1

\* C1 amended: conn.close is never called more than once; when the invocation
\* has ended, it was called exactly once if duckdb.connect returned (and the
\* session is then closed), and not at all if duckdb.connect itself raised.
C1_ClosedOnceIfOpened ==
    /\ closeCount <= 1
    /\ closeCount = Count("close")
    /\ Done /\ failed /= "connect" => closeCount = 1 /\ connBound /\ ~connOpen
    /\ Done /\ failed = "connect" => closeCount = 0 /\ ~connBound

C1_Witness ==
    Done /\ failed = "query" /\ closeCount = 1 /\ Count("connect") = 1

\* C2 as stated: an invocation whose request lacks a truthy query or
\* catalog_arn never issues the ATTACH or the query and, the request being
\* a mapping, ends with the 400 missing-parameters response.
C2_MissingGives400 ==
    RequestIncomplete =>
        /\ Count("ATTACH") = 0 /\ Count("QUERY") = 0
        /\ Done /\ event.kind = "dict" =>
                   /\ ValidationShape(response)
                   /\ response.body.text
                        = "Missing required parameters: ['query', 'catalog_arn']"

\* C2 amended: an invocation whose request lacks a truthy query or
\* catalog_arn never issues the ATTACH or the query; if the request is a
\* mapping and setup completed, it ends with the 400 missing-parameters
\* response.
C2_MissingGives400AfterSetup ==
    RequestIncomplete =>
        /\ Count("ATTACH") = 0 /\ Count("QUERY") = 0
        /\ Done /\ event.kind = "dict" /\ failed = "none" =>
                /\ validated
                /\ ValidationShape(response)
                /\ response.body.text
                     = "Missing required parameters: ['query', 'catalog_arn']"

C2_Witness ==
    /\ Done /\ event.kind = "dict" /\ failed = "none"
    /\ "query" \in DOMAIN event.items /\ Truthy(event.items["query"])
    /\ "catalog_arn" \in DOMAIN event.items /\ event.items["catalog_arn"] = ""
    /\ response.statusCode = 400

\* C3: when the ATTACH raises, the request was valid, the response is 500
\* with error "Catalog connection failed" and details the exception's
\* message, and the query is never issued.
C3_AttachFailure ==
    failed = "attach" =>
        /\ event.kind = "dict" /\ ~RequestIncomplete
        /\ Count("ATTACH") = 1 /\ Count("QUERY") = 0
        /\ response.statusCode = 500
        /\ IsObject(response)
        /\ response.body.value
             = [error |-> "Catalog connection failed", details |-> exc.msg]
        /\ exc \in EngineErrors

C3_Witness ==
    Done /\ failed = "attach" /\ response.statusCode = 500 /\ Count("ATTACH") = 1

\* C4: when executing the query raises after a successful ATTACH, the
\* response is 400 with error "Query execution error", details the
\* exception's message, and the three suggestions in the fixed order.
C4_QueryFailure ==
    failed = "query" =>
        /\ Count("ATTACH") = 1 /\ Count("QUERY") = 1
        /\ response.statusCode = 400
        /\ IsObject(response)
        /\ DOMAIN response.body.value = {"error", "details", "suggestions"}
        /\ response.body.value.error = "Query execution error"
        /\ response.body.value.details = exc.msg
        /\ response.body.value.suggestions
             = <<"Verify table exists in the attached database",
                 "Check your S3 Tables ARN format",
                 "Validate AWS permissions for the bucket">>
        /\ exc \in EngineErrors

C4_Witness ==
    Done /\ failed = "query" /\ response.statusCode = 400 /\ Count("QUERY") = 1

C6_SetupFailureFatal ==
    failed \in {"connect", "setup"} =>
        /\ ~validated
        /\ Count("ATTACH") = 0 /\ Count("QUERY") = 0 /\ Count("fetchall") = 0
        /\ pc \in {"finally", "done"}
        /\ GenericShape(response)
        /\ response.body.value.error = "Unexpected runtime error"

C6_Witness ==
    /\ Done /\ failed = "setup" /\ event.kind = "dict" /\ ~RequestIncomplete
    /\ trace[failIdx] = <<"CREATE SECRET", "s3">>
    /\ response.statusCode = 500

\* C7: when setup, validation, ATTACH and the query all succeed, the
\* response is 200, data holds one mapping per fetched row in order with
\* every column's value under its name, row_count is the number of rows and
\* column_names the result's column names in order.
C7_SuccessBody ==
    Done /\ QuerySucceeded =>
        /\ SuccessShape(response)
        /\ Len(response.body.value.data) = Len(result)
        /\ response.body.value.metadata.row_count = Len(result)
        /\ response.body.value.metadata.column_names = columns
        /\ \A i \in 1..Len(result) : \A j \in 1..Len(columns) :
             /\ columns[j] \in DOMAIN response.body.value.data[i]
             /\ response.body.value.data[i][columns[j]] = JsonValue(result[i][j])

\* C8: every response has status 200, 400 or 500, and each shape is returned
\* for its own category only: the plain 400 message for a rejected request,
\* 500 {error, details} for a failed ATTACH, 400 {error, details,
\* suggestions} for a failed query execution, the generic 500 for a setup or
\* other unexpected failure.
C8_ShapesMatchFailure ==
    Done =>
        /\ response.statusCode \in {200, 400, 500}
        /\ ValidationShape(response) <=> (failed = "none" /\ RequestIncomplete)
        /\ CatalogShape(response) <=> failed = "attach"
        /\ QueryShape(response) <=> failed = "query"
        /\ GenericShape(response) <=> failed \in {"connect", "setup", "event"}
        /\ SuccessShape(response) <=> (failed = "none" /\ ~RequestIncomplete)

\* C9: the ATTACH and the query are each issued at most once, and after an
\* engine call has raised the only engine call still made is the close.
C9_NoRetries ==
    /\ Count("ATTACH") <= 1
    /\ Count("QUERY") <= 1
    /\ Count("fetchall") <= 1
    /\ failed \in {"connect", "setup", "attach", "query"} =>
        /\ failIdx >= 1 /\ failIdx <= Len(trace)
        /\ \A k \in (failIdx + 1)..Len(trace) : trace[k][1] = "close"

C9_Witness ==
    /\ Done /\ failed = "attach"
    /\ Len(trace) = failIdx + 1
    /\ trace[failIdx][1] = "ATTACH" /\ trace[Len(trace)][1] = "close"

\* C10: in a 200 response every row mapping has one key per entry of
\* column_names and maps the i-th column name to the i-th value of the row.
C10_OneKeyPerColumn ==
    Done /\ response.statusCode = 200 =>
        LET names == response.body.value.metadata.column_names IN
        \A i \in 1..Len(response.body.value.data) :
            /\ Cardinality(DOMAIN response.body.value.data[i]) = Len(names)
            /\ \A j \in 1..Len(names) :
                 /\ names[j] \in DOMAIN response.body.value.data[i]
                 /\ response.body.value.data[i][names[j]] = JsonValue(result[i][j])

====
